---- MODULE Spec2Model ----
(***************************************************************************)
(* Model of the JSON-RPC / LSP message vocabulary of src/src/jsonrpc.rs    *)
(* and of its one user, src/src/main.rs.                                   *)
(*                                                                         *)
(* The code is pure: an enumeration with two translation functions and     *)
(* three serde-derived envelope structs.  The state of the model is the    *)
(* last call of each function: its arguments and what it returned.         *)
(* Three specifications share the variables:                               *)
(*   SpecMethod    LspMethod::to_string and LspMethod::from_str            *)
(*   SpecRequest   construction and serialization of JsonRpcRequest        *)
(*   SpecResponse  deserialization of JsonRpcResponse / JsonRpcError       *)
(***************************************************************************)
EXTENDS Integers, Sequences, FiniteSets

VARIABLES
    op,            \* the last operation performed
    variant,       \* argument of the last to_string call
    wire,          \* what the last to_string call returned
    prev_variant,  \* argument of the to_string call before it
    prev_wire,     \* what that call returned
    text,          \* argument of the last from_str call
    parsed,        \* what the last from_str call returned (Option<LspMethod>)
    req,           \* the last JsonRpcRequest value constructed
    built_from,    \* the (method, params, id) main's construction was given
    fields,        \* the struct fields the derived Serialize impl emitted
    json_request_body, \* the text serde_json::to_string produced
    payload,       \* the JSON document handed to the response decoder
    outcome        \* Result<JsonRpcResponse, serde_json::Error> of decoding

vars == <<op, variant, wire, prev_variant, prev_wire, text, parsed,
          req, built_from, fields, json_request_body, payload, outcome>>

methodVars   == <<variant, wire, prev_variant, prev_wire, text, parsed>>
requestVars  == <<req, built_from, fields, json_request_body>>
responseVars == <<payload, outcome>>

(***************************************************************************)
(* Option<T>: None is the empty sequence, Some(x) the one-element one.     *)
(***************************************************************************)
None == <<>>
Some(x) == <<x>>

\* "No call yet" markers for the argument / result variables.
NoCall == "<no call>"

(***************************************************************************)
(* enum LspMethod: the variants, by name.                                  *)
(***************************************************************************)
LspMethod ==
    { "Initialize", "Shutdown", "DidChange", "DidOpen", "DidClose", "Hover",
      "Completion", "SignatureHelp", "Definition", "References",
      "DocumentSymbol", "DocumentHighlights", "DocumentFormatting",
      "RangeFormatting", "OnTypeFormatting", "CodeAction", "WorkspaceSymbol",
      "WorkspaceReferences", "Rename", "PrepareRename", "ExecuteCommand" }

\* A to_string that lost the "textDocument/" prefix of one arm and so
\* collides with no other arm but differs from the protocol's string.
to_string_typo(self) ==
    CASE self = "Initialize"          -> "initialize"
      [] self = "Shutdown"            -> "shutdown"
      [] self = "DidChange"           -> "textDocument/didChange"
      [] self = "DidOpen"             -> "textDocument/didOpen"
      [] self = "DidClose"            -> "textDocument/didClose"
      [] self = "Hover"               -> "textDocument/hover"
      [] self = "Completion"          -> "textDocument/completion"
      [] self = "SignatureHelp"       -> "textDocument/signatureHelp"
      [] self = "Definition"          -> "textDocument/definition"
      [] self = "References"          -> "textDocument/references"
      [] self = "DocumentSymbol"      -> "textDocument/documentSymbol"
      [] self = "DocumentHighlights"  -> "textDocument/documentHighlights"
      [] self = "DocumentFormatting"  -> "textDocument/documentFormatting"
      [] self = "RangeFormatting"     -> "textDocument/rangeFormatting"
      [] self = "OnTypeFormatting"    -> "textDocument/onTypeFormatting"
      [] self = "CodeAction"          -> "textDocument/codeAction"
      [] self = "Rename"              -> "textDocument/rename"
      [] self = "PrepareRename"       -> "textDocument/prepareRename"
      [] self = "WorkspaceSymbol"     -> "workspace/symbol"
      [] self = "WorkspaceReferences" -> "workspace/references"
      [] self = "ExecuteCommand"      -> "workspace/executeCommand"

\* A to_string with a copy-and-paste slip: two arms return the same string.
to_string_dup(self) ==
    IF self = "WorkspaceReferences" THEN "textDocument/references"
    ELSE to_string_typo(IF self = "DocumentFormatting" THEN "Hover" ELSE self)

\* LspMethod::to_string: an exhaustive match, one arm per variant.
to_string(self) ==
    CASE self = "Initialize"          -> "initialize"
      [] self = "Shutdown"            -> "shutdown"
      [] self = "DidChange"           -> "textDocument/didChange"
      [] self = "DidOpen"             -> "textDocument/didOpen"
      [] self = "DidClose"            -> "textDocument/didClose"
      [] self = "Hover"               -> "textDocument/hover"
      [] self = "Completion"          -> "textDocument/completion"
      [] self = "SignatureHelp"       -> "textDocument/signatureHelp"
      [] self = "Definition"          -> "textDocument/definition"
      [] self = "References"          -> "textDocument/references"
      [] self = "DocumentSymbol"      -> "textDocument/documentSymbol"
      [] self = "DocumentHighlights"  -> "textDocument/documentHighlights"
      [] self = "DocumentFormatting"  -> "textDocument/formatting"
      [] self = "RangeFormatting"     -> "textDocument/rangeFormatting"
      [] self = "OnTypeFormatting"    -> "textDocument/onTypeFormatting"
      [] self = "CodeAction"          -> "textDocument/codeAction"
      [] self = "Rename"              -> "textDocument/rename"
      [] self = "PrepareRename"       -> "textDocument/prepareRename"
      [] self = "WorkspaceSymbol"     -> "workspace/symbol"
      [] self = "WorkspaceReferences" -> "workspace/references"
      [] self = "ExecuteCommand"      -> "workspace/executeCommand"

\* A from_str whose table lost its last arm before the wildcard.
from_str_lost_arm(s) ==
    CASE s = "initialize"                      -> Some("Initialize")
      [] s = "shutdown"                        -> Some("Shutdown")
      [] s = "textDocument/didChange"          -> Some("DidChange")
      [] s = "textDocument/didOpen"            -> Some("DidOpen")
      [] s = "textDocument/didClose"           -> Some("DidClose")
      [] s = "textDocument/hover"              -> Some("Hover")
      [] s = "textDocument/completion"         -> Some("Completion")
      [] s = "textDocument/signatureHelp"      -> Some("SignatureHelp")
      [] s = "textDocument/definition"         -> Some("Definition")
      [] s = "textDocument/references"         -> Some("References")
      [] s = "textDocument/documentSymbol"     -> Some("DocumentSymbol")
      [] s = "textDocument/documentHighlights" -> Some("DocumentHighlights")
      [] s = "textDocument/formatting"         -> Some("DocumentFormatting")
      [] s = "textDocument/rangeFormatting"    -> Some("RangeFormatting")
      [] s = "textDocument/onTypeFormatting"   -> Some("OnTypeFormatting")
      [] s = "textDocument/codeAction"         -> Some("CodeAction")
      [] s = "workspace/symbol"                -> Some("WorkspaceSymbol")
      [] s = "workspace/references"            -> Some("WorkspaceReferences")
      [] s = "textDocument/rename"             -> Some("Rename")
      [] s = "textDocument/prepareRename"      -> Some("PrepareRename")
      [] OTHER                                 -> None

\* A from_str whose two workspace arms were swapped when they were moved.
from_str_swapped(s) ==
    CASE s = "workspace/symbol"         -> Some("WorkspaceReferences")
      [] s = "workspace/references"     -> Some("WorkspaceSymbol")
      [] s = "workspace/executeCommand" -> Some("ExecuteCommand")
      [] OTHER                          -> from_str_lost_arm(s)

\* A from_str that also accepts the variant's own name for "initialize".
from_str_lenient(s) ==
    CASE s = "Initialize"               -> Some("Initialize")
      [] s = "workspace/executeCommand" -> Some("ExecuteCommand")
      [] OTHER                          -> from_str_lost_arm(s)

\* LspMethod::from_str: a match on the exact string, None for any other.
from_str(s) ==
    CASE s = "initialize"                      -> Some("Initialize")
      [] s = "shutdown"                        -> Some("Shutdown")
      [] s = "textDocument/didChange"          -> Some("DidChange")
      [] s = "textDocument/didOpen"            -> Some("DidOpen")
      [] s = "textDocument/didClose"           -> Some("DidClose")
      [] s = "textDocument/hover"              -> Some("Hover")
      [] s = "textDocument/completion"         -> Some("Completion")
      [] s = "textDocument/signatureHelp"      -> Some("SignatureHelp")
      [] s = "textDocument/definition"         -> Some("Definition")
      [] s = "textDocument/references"         -> Some("References")
      [] s = "textDocument/documentSymbol"     -> Some("DocumentSymbol")
      [] s = "textDocument/documentHighlights" -> Some("DocumentHighlights")
      [] s = "textDocument/formatting"         -> Some("DocumentFormatting")
      [] s = "textDocument/rangeFormatting"    -> Some("RangeFormatting")
      [] s = "textDocument/onTypeFormatting"   -> Some("OnTypeFormatting")
      [] s = "textDocument/codeAction"         -> Some("CodeAction")
      [] s = "workspace/symbol"                -> Some("WorkspaceSymbol")
      [] s = "workspace/references"            -> Some("WorkspaceReferences")
      [] s = "textDocument/rename"             -> Some("Rename")
      [] s = "textDocument/prepareRename"      -> Some("PrepareRename")
      [] s = "workspace/executeCommand"        -> Some("ExecuteCommand")
      [] OTHER                                 -> None

(***************************************************************************)
(* The strings from_str is called with: what to_string produces, and       *)
(* strings it does not produce -- the empty string, an unknown method,     *)
(* methods of the protocol outside the enumeration, variant names, and     *)
(* strings that differ from a wire string in letter case or by one blank.  *)
(***************************************************************************)
OtherStrings ==
    { "", "not/a/method", "exit", "initialized", "$/cancelRequest",
      "textDocument/documentHighlight", "textDocument/documentFormatting",
      "textDocument/didSave", "workspace/didChangeConfiguration",
      "Initialize", "INITIALIZE", "Shutdown", "SHUTDOWN", "Hover",
      "DocumentFormatting", "WorkspaceSymbol",
      "textdocument/didchange", "TextDocument/didChange",
      "textDocument/DidChange", "textDocument/didchange",
      "textDocument/Hover", "TEXTDOCUMENT/HOVER", "textdocument/hover",
      "textDocument/signaturehelp", "textDocument/preparerename",
      "Workspace/symbol", "workspace/Symbol", "workspace/executecommand",
      "WORKSPACE/EXECUTECOMMAND", "initialize ", " initialize",
      "textDocument/hover/", "textDocument", "workspace/", "/" }

WireStrings == { to_string(v) : v \in LspMethod }

InputStrings == WireStrings \cup OtherStrings

(***************************************************************************)
(* Calls of the two translation functions.                                 *)
(***************************************************************************)
\* method.to_string(), for a variant the caller chose.
CallToString(v) ==
    /\ op' = "to_string"
    /\ prev_variant' = variant
    /\ prev_wire' = wire
    /\ variant' = v
    /\ wire' = to_string(v)
    /\ UNCHANGED <<text, parsed, requestVars, responseVars>>

\* LspMethod::from_str(s), for a string the caller received.
CallFromStr(s) ==
    /\ op' = "from_str"
    /\ text' = s
    /\ parsed' = from_str(s)
    /\ UNCHANGED <<variant, wire, prev_variant, prev_wire,
                   requestVars, responseVars>>

\* LspMethod::from_str(v.to_string()): decoding what was just encoded.
RoundTrip ==
    /\ wire # NoCall
    /\ op' = "round_trip"
    /\ text' = wire
    /\ parsed' = from_str(wire)
    /\ UNCHANGED <<variant, wire, prev_variant, prev_wire,
                   requestVars, responseVars>>

NextMethod ==
    \/ \E v \in LspMethod : CallToString(v)
    \/ \E s \in InputStrings : CallFromStr(s)
    \/ RoundTrip

(***************************************************************************)
(* JsonRpcRequest<'a, T>, with T = &str as main instantiates it.           *)
(*                                                                         *)
(* jsonrpc and method are &str fields; the model keeps them as whole       *)
(* strings, none of which holds a character that JSON escapes.  The        *)
(* elements of params are &str values too; the model keeps those as        *)
(* sequences of characters, so that the writer's escaping is modelled.     *)
(***************************************************************************)
MaxParams == 2

SeqsUpTo(S, n) == UNION { [1..k -> S] : k \in 0..n }

\* The parameter strings a caller passes, as characters: the empty string,
\* a plain one, and ones holding the two characters that serde_json
\* escapes with a backslash.
ParamStrings == { <<>>, <<"a">>, <<"\"">>, <<"a", "\\">> }
ParamLists == SeqsUpTo(ParamStrings, MaxParams)

\* Values of the u64 field id: one and several decimal digits.
Ids == { 0, 1, 10, 305 }

\* What a caller can write into the two &str fields of a struct literal.
VersionStrings == { "2.0", "1.0", "" }
MethodStrings == { "initialize", "workspace/symbol", "custom/method" }

\* The struct: four public fields, no constructor function.
JsonRpcRequest(jsonrpc, method, params, id) ==
    [jsonrpc |-> jsonrpc, method |-> method, params |-> params, id |-> id]

\* main's struct literal, for a method, parameters and id of the caller's.
main_request(m, p, n) ==
    JsonRpcRequest("2.0", to_string(m), p, n)

\* A derived impl that emits id before params.
Serialize_id_first(r) ==
    << <<"jsonrpc", [t |-> "str", v |-> r.jsonrpc]>>,
       <<"method",  [t |-> "str", v |-> r.method]>>,
       <<"id",      [t |-> "u64", v |-> r.id]>>,
       <<"params",  [t |-> "seq", v |-> r.params]>> >>

\* #[derive(Serialize)]: serialize_struct with one serialize_field per
\* field, in the order of declaration.
Serialize(r) ==
    << <<"jsonrpc", [t |-> "str", v |-> r.jsonrpc]>>,
       <<"method",  [t |-> "str", v |-> r.method]>>,
       <<"params",  [t |-> "seq", v |-> r.params]>>,
       <<"id",      [t |-> "u64", v |-> r.id]>> >>

(***************************************************************************)
(* serde_json::to_string: the compact writer.                              *)
(***************************************************************************)
Digit(d) ==
    CASE d = 0 -> "0" [] d = 1 -> "1" [] d = 2 -> "2" [] d = 3 -> "3"
      [] d = 4 -> "4" [] d = 5 -> "5" [] d = 6 -> "6" [] d = 7 -> "7"
      [] d = 8 -> "8" [] d = 9 -> "9"

\* An unsigned integer in decimal.
RECURSIVE write_u64(_)
write_u64(n) ==
    IF n < 10 THEN Digit(n) ELSE write_u64(n \div 10) \o Digit(n % 10)

\* One character of a string: '"' and '\' get a backslash.
escape_char(c) ==
    CASE c = "\"" -> "\\\""
      [] c = "\\" -> "\\\\"
      [] OTHER    -> c

RECURSIVE escaped_contents(_)
escaped_contents(cs) ==
    IF cs = <<>> THEN ""
    ELSE escape_char(Head(cs)) \o escaped_contents(Tail(cs))

\* A string given as characters, quoted and escaped.
format_escaped_str(cs) == "\"" \o escaped_contents(cs) \o "\""

\* A string given whole (it holds nothing to escape), quoted.
write_str(s) == "\"" \o s \o "\""

\* The elements of a sequence, separated by commas.
RECURSIVE write_elements(_)
write_elements(p) ==
    IF p = <<>> THEN ""
    ELSE IF Len(p) = 1 THEN format_escaped_str(p[1])
    ELSE format_escaped_str(Head(p)) \o "," \o write_elements(Tail(p))

write_value(x) ==
    CASE x.t = "str" -> write_str(x.v)
      [] x.t = "u64" -> write_u64(x.v)
      [] x.t = "seq" -> "[" \o write_elements(x.v) \o "]"

\* The fields of a struct as "name":value pairs, separated by commas.
RECURSIVE write_fields(_)
write_fields(fs) ==
    IF fs = <<>> THEN ""
    ELSE write_str(Head(fs)[1]) \o ":" \o write_value(Head(fs)[2])
         \o (IF Len(fs) = 1 THEN "" ELSE "," \o write_fields(Tail(fs)))

to_string_json(fs) == "{" \o write_fields(fs) \o "}"

(***************************************************************************)
(* JSON documents, as the decoder sees them once the text is tokenized.    *)
(* A string remembers whether its text holds an escape sequence: a &str    *)
(* field borrows from the input, which only an escape-free string allows.  *)
(* An object maps the names it holds to their values.                      *)
(***************************************************************************)
Absent == [t |-> "absent"]   \* no member of that name in the object
JNull == [t |-> "null"]
JInt(n) == [t |-> "int", int |-> n]
JBig == [t |-> "bigint", digits |-> "4294967296"] \* beyond 32 bits
JFloat == [t |-> "float", digits |-> "1.5"]
JStr(s) == [t |-> "str", str |-> s, escaped |-> FALSE]
JStrEscaped(s) == [t |-> "str", str |-> s, escaped |-> TRUE]
JArr(elems) == [t |-> "arr", arr |-> elems]
\* members: a function from names to values or Absent
JObj(members) ==
    [t |-> "obj",
     obj |-> [k \in { n \in DOMAIN members : members[n] # Absent }
              |-> members[k]]]

Has(o, k) == o.t = "obj" /\ k \in DOMAIN o.obj
Get(o, k) == IF Has(o, k) THEN o.obj[k] ELSE Absent

\* Result<T, serde_json::Error>
Ok(x) == [ok |-> TRUE, val |-> x]
Err(e) == [ok |-> FALSE, err |-> e]

(***************************************************************************)
(* Deserialize for the field types.  The argument is the member's value,   *)
(* or Absent when the object has no member of the field's name.            *)
(***************************************************************************)
\* &'a str: a string of the input with no escape sequence in it.
de_borrowed_str(name, x) ==
    IF x = Absent THEN Err(<<"missing field", name>>)
    ELSE IF x.t = "str" /\ ~x.escaped THEN Ok(x.str)
    ELSE Err(<<"invalid type", name>>)

\* String: any string.
de_String(name, x) ==
    IF x = Absent THEN Err(<<"missing field", name>>)
    ELSE IF x.t = "str" THEN Ok(x.str)
    ELSE Err(<<"invalid type", name>>)

\* u64: a non-negative integer (the payloads hold none beyond 32 bits).
de_u64(name, x) ==
    IF x = Absent THEN Err(<<"missing field", name>>)
    ELSE IF x.t = "int" /\ x.int >= 0 THEN Ok(x.int)
    ELSE IF x.t \in {"int", "bigint"} THEN Err(<<"invalid value", name>>)
    ELSE Err(<<"invalid type", name>>)

\* i32: an integer of 32 bits.
de_i32(name, x) ==
    IF x = Absent THEN Err(<<"missing field", name>>)
    ELSE IF x.t = "int" THEN Ok(x.int)
    ELSE IF x.t = "bigint" THEN Err(<<"invalid value", name>>)
    ELSE Err(<<"invalid type", name>>)

\* Option<serde_json::Value>: a missing member and null are None, any
\* other document is Some of itself.
de_Option_Value(x) ==
    IF x = Absent \/ x = JNull THEN Ok(None) ELSE Ok(Some(x))

(***************************************************************************)
(* struct JsonRpcError { code: i32, message: String,                       *)
(*                       data: Option<serde_json::Value> }                 *)
(***************************************************************************)
JsonRpcError(code, message, data) ==
    [code |-> code, message |-> message, data |-> data]

field_code(x) == de_i32("code", x)
field_message(x) == de_String("message", x)
field_data(x) == de_Option_Value(x)

\* The struct from its three fields, or the first field's error.
finish_JsonRpcError(c, m, d) ==
    IF ~c.ok THEN c
    ELSE IF ~m.ok THEN m
    ELSE IF ~d.ok THEN d
    ELSE Ok(JsonRpcError(c.val, m.val, d.val))

\* #[derive(Deserialize)]: from an object by member name (names it does
\* not know are skipped), or from an array of exactly the three fields in
\* the order of declaration.
deserialize_JsonRpcError(x) ==
    IF x.t = "obj" THEN
        finish_JsonRpcError(field_code(Get(x, "code")),
                            field_message(Get(x, "message")),
                            field_data(Get(x, "data")))
    ELSE IF x.t = "arr" THEN
        IF Len(x.arr) # 3 THEN Err(<<"invalid length", "JsonRpcError">>)
        ELSE finish_JsonRpcError(field_code(x.arr[1]), field_message(x.arr[2]),
                                 field_data(x.arr[3]))
    ELSE Err(<<"invalid type", "JsonRpcError">>)

(***************************************************************************)
(* struct JsonRpcResponse<'a, T> { jsonrpc: &'a str, result: Option<T>,    *)
(*     error: Option<JsonRpcError>, id: u64 }, with T = serde_json::Value. *)
(***************************************************************************)
JsonRpcResponse(jsonrpc, result, error, id) ==
    [jsonrpc |-> jsonrpc, result |-> result, error |-> error, id |-> id]

field_jsonrpc(x) == de_borrowed_str("jsonrpc", x)

\* A result field marked #[serde(skip)]: never read from the input.
field_result_skipped(x) == Ok(None)

field_result(x) == de_Option_Value(x)

\* Option<JsonRpcError>: a missing member and null are None, any other
\* document must deserialize as the struct.
field_error(x) ==
    IF x = Absent \/ x = JNull THEN Ok(None)
    ELSE LET e == deserialize_JsonRpcError(x) IN
         IF e.ok THEN Ok(Some(e.val)) ELSE e

\* An id field marked #[serde(default)]: a missing member is 0.
field_id_default(x) ==
    IF x = Absent THEN Ok(0) ELSE de_u64("id", x)

field_id(x) == de_u64("id", x)

\* A decoder that checks the result/error exclusivity after the fields.
finish_JsonRpcResponse_exclusive(j, r, e, i) ==
    IF ~j.ok THEN j
    ELSE IF ~r.ok THEN r
    ELSE IF ~e.ok THEN e
    ELSE IF ~i.ok THEN i
    ELSE IF (r.val = None) = (e.val = None)
         THEN Err(<<"invalid value", "result/error">>)
    ELSE Ok(JsonRpcResponse(j.val, r.val, e.val, i.val))

\* The struct from its four fields, or the first field's error; nothing
\* relates result and error.
finish_JsonRpcResponse(j, r, e, i) ==
    IF ~j.ok THEN j
    ELSE IF ~r.ok THEN r
    ELSE IF ~e.ok THEN e
    ELSE IF ~i.ok THEN i
    ELSE Ok(JsonRpcResponse(j.val, r.val, e.val, i.val))

\* #[derive(Deserialize)]: from an object by member name, or from an array
\* of exactly the four fields in the order of declaration.
deserialize_JsonRpcResponse(x) ==
    IF x.t = "obj" THEN
        finish_JsonRpcResponse(field_jsonrpc(Get(x, "jsonrpc")),
                               field_result(Get(x, "result")),
                               field_error(Get(x, "error")),
                               field_id(Get(x, "id")))
    ELSE IF x.t = "arr" THEN
        IF Len(x.arr) # 4 THEN Err(<<"invalid length", "JsonRpcResponse">>)
        ELSE finish_JsonRpcResponse(field_jsonrpc(x.arr[1]),
                                    field_result(x.arr[2]),
                                    field_error(x.arr[3]), field_id(x.arr[4]))
    ELSE Err(<<"invalid type", "JsonRpcResponse">>)

(***************************************************************************)
(* The payloads handed to the decoder.                                     *)
(***************************************************************************)
Capabilities == JObj([capabilities |-> JObj(<<>>)])

VersionMembers ==
    { Absent, JStr("2.0"), JStr("1.0"), JStrEscaped("2.0"), JInt(2), JNull }

ResultMembers ==
    { Absent, JNull, JInt(1), JStr("ok"), Capabilities }

IdMembers ==
    { Absent, JInt(1), JInt(2), JInt(0), JInt(0 - 1), JFloat, JStr("1"),
      JNull }

CodeMembers ==
    { Absent, JInt(0 - 32601), JInt(0 - 32700), JBig, JFloat,
      JStr("-32601"), JNull }

MessageMembers ==
    { Absent, JStr("Method not found"), JStrEscaped("Parse\nerror"),
      JInt(7), JNull }

DataMembers == { Absent, JNull, JStr("detail") }

ErrorObjects ==
    { JObj([code |-> c, message |-> m, data |-> d, extra |-> x]) :
        c \in CodeMembers, m \in MessageMembers, d \in DataMembers,
        x \in { Absent, JInt(1) } }

ErrorArrays ==
    { JArr(<<>>),
      JArr(<<JInt(0 - 32601), JStr("Method not found")>>),
      JArr(<<JInt(0 - 32601), JStr("Method not found"), JNull>>),
      JArr(<<JInt(0 - 32601), JStr("Method not found"), JStr("detail")>>),
      JArr(<<JStr("Method not found"), JInt(0 - 32601), JNull>>),
      JArr(<<JInt(0 - 32601), JStr("Method not found"), JNull, JNull>>) }

ErrorMembers ==
    { Absent, JNull, JInt(0 - 32601), JStr("Method not found") }
        \cup ErrorObjects \cup ErrorArrays

ObjectPayloads ==
    { JObj([jsonrpc |-> j, result |-> r, error |-> e, id |-> i,
            extra |-> x]) :
        j \in VersionMembers, r \in ResultMembers, e \in ErrorMembers,
        i \in IdMembers, x \in { Absent, JInt(1) } }

ArrayPayloads ==
    { JArr(<<>>),
      JArr(<<JStr("2.0"), JNull, JNull, JInt(1)>>),
      JArr(<<JStr("2.0"), Capabilities, JNull, JInt(1)>>),
      JArr(<<JStr("2.0"), JInt(1),
             JArr(<<JInt(0 - 32601), JStr("Method not found"), JNull>>),
             JInt(2)>>),
      JArr(<<JStr("2.0"), JNull, JNull>>),
      JArr(<<JStr("2.0"), JNull, JNull, JInt(1), JNull>>),
      JArr(<<JInt(1), JNull, JNull, JStr("2.0")>>) }

ScalarPayloads == { JNull, JInt(1), JStr("2.0"), JFloat }

Payloads == ObjectPayloads \cup ArrayPayloads \cup ScalarPayloads

NoReq == [jsonrpc |-> NoCall, method |-> NoCall, params |-> <<>>, id |-> 0]

Init ==
    /\ op = "init"
    /\ variant = NoCall
    /\ wire = NoCall
    /\ prev_variant = NoCall
    /\ prev_wire = NoCall
    /\ text = NoCall
    /\ parsed = None
    /\ req = NoReq
    /\ built_from = None
    /\ fields = <<>>
    /\ json_request_body = NoCall
    /\ payload = None
    /\ outcome = None

SpecMethod == Init /\ [][NextMethod]_vars

(***************************************************************************)
(* A run of main: one request is constructed, then serialized.             *)
(***************************************************************************)
\* main's construction: the version is the literal, the method comes from
\* to_string.
Build(m, p, n) ==
    /\ op' = "build"
    /\ req' = main_request(m, p, n)
    /\ built_from' = Some([method |-> m, params |-> p, id |-> n])
    /\ UNCHANGED <<fields, json_request_body, methodVars, responseVars>>

\* A struct literal written by any other caller: every field is the
\* caller's value.
Construct(j, meth, p, n) ==
    /\ op' = "construct"
    /\ req' = JsonRpcRequest(j, meth, p, n)
    /\ built_from' = None
    /\ UNCHANGED <<fields, json_request_body, methodVars, responseVars>>

\* serde_json::to_string(&json_rpc_request)
SerializeRequest ==
    /\ req # NoReq
    /\ json_request_body = NoCall
    /\ op' = "serialize"
    /\ fields' = Serialize(req)
    /\ json_request_body' = to_string_json(Serialize(req))
    /\ UNCHANGED <<req, built_from, methodVars, responseVars>>

\* One request is constructed in a run, by main or by a literal.
BuildRequest ==
    /\ req = NoReq
    /\ \E m \in LspMethod, p \in ParamLists, n \in Ids : Build(m, p, n)

ConstructRequest ==
    /\ req = NoReq
    /\ \E j \in VersionStrings, meth \in MethodStrings,
          p \in ParamLists, n \in Ids : Construct(j, meth, p, n)

NextRequest ==
    \/ BuildRequest
    \/ ConstructRequest
    \/ SerializeRequest

SpecRequest == Init /\ [][NextRequest]_vars

(***************************************************************************)
(* One decoding of a response payload.                                     *)
(***************************************************************************)
\* serde_json::from_str::<JsonRpcResponse<Value>>(payload)
Decode(pl) ==
    /\ op' = "decode"
    /\ payload' = Some(pl)
    /\ outcome' = Some(deserialize_JsonRpcResponse(pl))
    /\ UNCHANGED <<methodVars, requestVars>>

\* One payload is decoded in a run.
DecodeResponse ==
    /\ payload = None
    /\ \E pl \in Payloads : Decode(pl)

NextResponse == DecodeResponse

SpecResponse == Init /\ [][NextResponse]_vars

(***************************************************************************)
(* Properties of the method registry, checked under SpecMethod.            *)
(***************************************************************************)

\* C1: for every variant v, from_str(to_string(v)) returns Some(v): after a
\* round trip the decoded variant is the variant that was encoded.
C1_RoundTrip ==
    op = "round_trip" => parsed = Some(variant)

C1_Witness ==
    /\ op = "round_trip"
    /\ variant = "WorkspaceReferences"
    /\ text = "workspace/references"
    /\ parsed = Some("WorkspaceReferences")

\* C2: for every string that to_string does not produce (the empty string,
\* "not/a/method", a wire string in another letter case, ...), from_str
\* returns None.
C2_UnknownIsNone ==
    (op \in {"from_str", "round_trip"} /\ text \notin WireStrings)
        => parsed = None

C2_Witness ==
    /\ op = "from_str"
    /\ text = "Initialize"
    /\ text \notin WireStrings
    /\ parsed = None

\* C3: to_string is injective: two calls with distinct variants return
\* distinct wire strings.
C3_Injective ==
    (prev_variant # NoCall /\ variant # prev_variant) => wire # prev_wire

C3_Witness ==
    /\ prev_variant = "References"
    /\ variant = "WorkspaceReferences"
    /\ prev_wire = "textDocument/references"
    /\ wire = "workspace/references"

\* The method string table of the specification (section 6), row by row.
MethodStringTable ==
    { <<"Initialize", "initialize">>,
      <<"Shutdown", "shutdown">>,
      <<"DidOpen", "textDocument/didOpen">>,
      <<"DidChange", "textDocument/didChange">>,
      <<"DidClose", "textDocument/didClose">>,
      <<"Hover", "textDocument/hover">>,
      <<"Completion", "textDocument/completion">>,
      <<"SignatureHelp", "textDocument/signatureHelp">>,
      <<"Definition", "textDocument/definition">>,
      <<"References", "textDocument/references">>,
      <<"DocumentSymbol", "textDocument/documentSymbol">>,
      <<"DocumentHighlights", "textDocument/documentHighlights">>,
      <<"DocumentFormatting", "textDocument/formatting">>,
      <<"RangeFormatting", "textDocument/rangeFormatting">>,
      <<"OnTypeFormatting", "textDocument/onTypeFormatting">>,
      <<"CodeAction", "textDocument/codeAction">>,
      <<"WorkspaceSymbol", "workspace/symbol">>,
      <<"WorkspaceReferences", "workspace/references">>,
      <<"Rename", "textDocument/rename">>,
      <<"PrepareRename", "textDocument/prepareRename">>,
      <<"ExecuteCommand", "workspace/executeCommand">> }

\* C4: to_string is total and returns, for every variant, exactly the wire
\* string the specification's method string table lists for it.
C4_TableExact ==
    variant # NoCall =>
        /\ <<variant, wire>> \in MethodStringTable
        /\ \A row \in MethodStringTable : row[1] = variant => row[2] = wire

C4_Witness ==
    /\ op = "to_string"
    /\ variant = "DocumentFormatting"
    /\ wire = "textDocument/formatting"

\* The strings from_str maps to a variant.
Recognized == { s \in InputStrings : from_str(s) # None }

\* C5 as stated: the enumeration has exactly 20 members and from_str
\* returns Some for exactly 20 strings (both counted once a translation
\* function has been called).
C5_TwentyMembers ==
    op # "init" =>
        /\ Cardinality(LspMethod) = 20
        /\ Cardinality(Recognized) = 20

\* C5 as amended: the enumeration is a closed set of exactly 21 members and
\* from_str returns Some for exactly 21 strings; whatever from_str returns
\* is a member of the enumeration.
C5_TwentyOneMembers ==
    /\ Cardinality(LspMethod) = 21
    /\ Cardinality(Recognized) = 21
    /\ variant # NoCall => variant \in LspMethod
    /\ parsed # None => (parsed[1] \in LspMethod /\ text \in Recognized)

C5_Witness ==
    /\ op = "from_str"
    /\ text = "workspace/executeCommand"
    /\ parsed = Some("ExecuteCommand")
    /\ Cardinality({ v \in LspMethod : v # "ExecuteCommand" }) = 20

(***************************************************************************)
(* Properties of the request envelope, checked under SpecRequest.          *)
(***************************************************************************)

\* C6: in every request envelope that can be constructed, the field
\* jsonrpc is the literal "2.0"; no caller can construct one that carries
\* another version.
C6_VersionIsConstant ==
    req # NoReq => req.jsonrpc = "2.0"

FieldNames(fs) == [i \in 1..Len(fs) |-> fs[i][1]]

\* C7: serializing the request built from method m, parameters p and id n
\* emits exactly the fields jsonrpc, method, params, id, in that order, with
\* the values "2.0", to_string(m), p (element order kept) and n; the text
\* for Initialize, no parameters and id 1 is the specification's literal,
\* and other requests give the text of the same shape.
C7_SerializedShape ==
    (op = "serialize" /\ built_from # None) =>
        LET a == built_from[1] IN
        /\ FieldNames(fields) = <<"jsonrpc", "method", "params", "id">>
        /\ fields[1][2] = [t |-> "str", v |-> "2.0"]
        /\ fields[2][2] = [t |-> "str", v |-> to_string(a.method)]
        /\ fields[3][2].t = "seq"
        /\ Len(fields[3][2].v) = Len(a.params)
        /\ \A i \in 1..Len(a.params) : fields[3][2].v[i] = a.params[i]
        /\ fields[4][2] = [t |-> "u64", v |-> a.id]
        /\ (a.method = "Initialize" /\ a.params = <<>> /\ a.id = 1) =>
             json_request_body =
               "{\"jsonrpc\":\"2.0\",\"method\":\"initialize\",\"params\":[],\"id\":1}"
        /\ (a.method = "Hover" /\ a.params = << <<"a">> >> /\ a.id = 10) =>
             json_request_body =
               "{\"jsonrpc\":\"2.0\",\"method\":\"textDocument/hover\",\"params\":[\"a\"],\"id\":10}"
        /\ (a.method = "Shutdown" /\ a.params = << <<"\"">>, <<>> >>
              /\ a.id = 305) =>
             json_request_body =
               "{\"jsonrpc\":\"2.0\",\"method\":\"shutdown\",\"params\":[\"\\\"\",\"\"],\"id\":305}"

C7_Witness ==
    /\ op = "serialize"
    /\ built_from = Some([method |-> "Initialize", params |-> <<>>, id |-> 1])
    /\ json_request_body =
         "{\"jsonrpc\":\"2.0\",\"method\":\"initialize\",\"params\":[],\"id\":1}"

(***************************************************************************)
(* Properties of the response decoder, checked under SpecResponse.         *)
(***************************************************************************)
IsInteger(x) == x.t \in {"int", "bigint"}

\* An object with an integer code and a string message.
ErrorObjectShape(e) ==
    /\ e.t = "obj"
    /\ Has(e, "code") /\ IsInteger(Get(e, "code"))
    /\ Has(e, "message") /\ Get(e, "message").t = "str"

\* The array form of the struct: an integer, a string and one more value.
ErrorArrayShape(e) ==
    /\ e.t = "arr"
    /\ Len(e.arr) = 3
    /\ IsInteger(e.arr[1])
    /\ e.arr[2].t = "str"

Decoded == op = "decode"
Failed == ~outcome[1].ok
Envelope == outcome[1].val

\* C8 as stated: decoding fails whenever the payload lacks id or jsonrpc,
\* or its error member is present and is not an object with an integer code
\* and a string message.
C8_FailsOnMalformed ==
    (Decoded /\ payload[1].t = "obj") =>
        LET p == payload[1] IN
        ( \/ ~Has(p, "id")
          \/ ~Has(p, "jsonrpc")
          \/ (Has(p, "error") /\ ~ErrorObjectShape(Get(p, "error"))) )
            => Failed

\* C8 as amended: decoding a payload object fails whenever it lacks id or
\* jsonrpc, or its error member is present and is neither null, nor an
\* object with an integer code and a string message, nor a three-element
\* array of an integer, a string and one more value.
C8_FailsOnMalformedNonNull ==
    (Decoded /\ payload[1].t = "obj") =>
        LET p == payload[1]
            e == Get(p, "error")
        IN  ( \/ ~Has(p, "id")
              \/ ~Has(p, "jsonrpc")
              \/ /\ Has(p, "error")
                 /\ e # JNull
                 /\ ~ErrorObjectShape(e)
                 /\ ~ErrorArrayShape(e) )
            => Failed

C8_Witness ==
    /\ Decoded
    /\ payload[1] = JObj([jsonrpc |-> JStr("2.0"), result |-> Capabilities])
    /\ Failed
    /\ outcome[1].err = <<"missing field", "id">>

\* A payload object with the version string and an unsigned integer id.
WellFormedHeader(p) ==
    /\ p.t = "obj"
    /\ Get(p, "jsonrpc") = JStr("2.0")
    /\ Get(p, "id").t = "int" /\ Get(p, "id").int >= 0

\* An error object with a 32-bit code and a message.
ErrorObject32(e) ==
    /\ ErrorObjectShape(e)
    /\ Get(e, "code").t = "int"

\* One with no data member.
PlainErrorObject(e) ==
    /\ ErrorObject32(e)
    /\ ~Has(e, "data")

\* What a failure payload with error object e and id n must decode to.
FailureDecoded(e, n) ==
    /\ ~Failed
    /\ Envelope.error =
         Some(JsonRpcError(Get(e, "code").int, Get(e, "message").str, None))
    /\ Envelope.result = None
    /\ Envelope.id = n

\* C9 as stated: a success payload (result present, error absent, id n)
\* decodes to result = Some(that value), error = None, id = n; a failure
\* payload (error object with code and message and no data, result absent,
\* id n) decodes to error = Some of that code and message with data = None,
\* result = None, id = n.
C9_DecodesLiterals ==
    (Decoded /\ WellFormedHeader(payload[1])) =>
        LET p == payload[1] IN
        /\ (Has(p, "result") /\ ~Has(p, "error")) =>
              /\ ~Failed
              /\ Envelope.result = Some(Get(p, "result"))
              /\ Envelope.error = None
              /\ Envelope.id = Get(p, "id").int
        /\ (~Has(p, "result") /\ PlainErrorObject(Get(p, "error"))) =>
              FailureDecoded(Get(p, "error"), Get(p, "id").int)

\* C9 as amended: the same, for a success payload whose result is present
\* and is not null (a null result decodes to result = None).
C9_DecodesNonNull ==
    (Decoded /\ WellFormedHeader(payload[1])) =>
        LET p == payload[1] IN
        /\ (Has(p, "result") /\ ~Has(p, "error")) =>
              /\ ~Failed
              /\ Get(p, "result") # JNull =>
                    Envelope.result = Some(Get(p, "result"))
              /\ Get(p, "result") = JNull => Envelope.result = None
              /\ Envelope.error = None
              /\ Envelope.id = Get(p, "id").int
        /\ (~Has(p, "result") /\ PlainErrorObject(Get(p, "error"))) =>
              FailureDecoded(Get(p, "error"), Get(p, "id").int)

C9_Witness ==
    /\ Decoded
    /\ payload[1] = JObj([jsonrpc |-> JStr("2.0"), result |-> Capabilities,
                          id |-> JInt(1)])
    /\ outcome[1] =
         Ok(JsonRpcResponse("2.0", Some(Capabilities), None, 1))

\* C10 as stated: a payload with valid jsonrpc and id that carries both a
\* result and an error object decodes to an envelope with both fields Some,
\* and one that carries neither decodes to one with both fields None.
C10_BothOrNeither ==
    (Decoded /\ WellFormedHeader(payload[1])) =>
        LET p == payload[1] IN
        /\ (Has(p, "result") /\ ErrorObject32(Get(p, "error"))) =>
              /\ ~Failed
              /\ Envelope.result # None
              /\ Envelope.error # None
        /\ (~Has(p, "result") /\ ~Has(p, "error")) =>
              /\ ~Failed
              /\ Envelope.result = None
              /\ Envelope.error = None

\* C10 as amended: a payload with valid jsonrpc and id that carries both a
\* result other than null and an error object decodes to an envelope with
\* both fields Some, and one that carries neither decodes to one with both
\* fields None.
C10_BothNonNullOrNeither ==
    (Decoded /\ WellFormedHeader(payload[1])) =>
        LET p == payload[1] IN
        /\ ( /\ Has(p, "result")
             /\ Get(p, "result") # JNull
             /\ ErrorObject32(Get(p, "error")) ) =>
              /\ ~Failed
              /\ Envelope.result = Some(Get(p, "result"))
              /\ Envelope.error # None
        /\ (~Has(p, "result") /\ ~Has(p, "error")) =>
              /\ ~Failed
              /\ Envelope.result = None
              /\ Envelope.error = None

C10_Witness ==
    /\ Decoded
    /\ payload[1] =
         JObj([jsonrpc |-> JStr("2.0"), result |-> JInt(1),
               error |-> JObj([code |-> JInt(0 - 32601),
                               message |-> JStr("Method not found")]),
               id |-> JInt(2)])
    /\ outcome[1] =
         Ok(JsonRpcResponse("2.0", Some(JInt(1)),
              Some(JsonRpcError(0 - 32601, "Method not found", None)), 2))

====
